---- MODULE Spec2Model ----
(***************************************************************************)
(* Model of the AIStoryteller backend core (app.py / app_v2.py):           *)
(*   - extract_ppt_structure + classify_slide   (SpecClassify)             *)
(*   - the bullet-marker stripping of generate_replacement_json (SpecStrip)*)
(*   - match_template_slide, driven by step 2 of beautify_ppt (SpecSelect) *)
(*   - generate_replacement_json                (SpecGenerate)             *)
(*   - the request handler beautify_ppt of app_v2.py (SpecBeautify)        *)
(*                                                                         *)
(* A Python str is a sequence of one-character strings.  Characters        *)
(* outside ASCII are written by their code point, e.g. "U+2022" is the     *)
(* bullet glyph.  An optional value (None or a str) is a sequence of       *)
(* length at most one: None is << >> and the str t is << t >>.             *)
(***************************************************************************)
EXTENDS Integers, Sequences, FiniteSets, TLC

VARIABLES
    meta,               \* extract_ppt_structure: the deck metadata
    slide_dict,         \* extract_ppt_structure: the page being normalized
    slide_type,         \* slide_dict["slide_type"], Unset before line 198
    line,               \* generate_replacement_json: the line being cleaned
    clean_line,         \* the results of successive strippings of line
    sel_type,           \* beautify_ppt step 2: the slide_type of the pages
    total_slides,       \* len(user_slides)
    template_sequence,  \* beautify_ppt step 2: the template indices so far
    user_slides,        \* generate_replacement_json: argument
    template_inventory, \* generate_replacement_json: argument
    replacement,        \* generate_replacement_json: the dict being built
    slide_idx,          \* generate_replacement_json: next page of the loop
    install,            \* beautify_ppt: do TEMPLATE_PATH, SCRIPTS_DIR exist
    request_pc,         \* beautify_ppt: where each request's handler is
    loop_owner,         \* the request whose handler runs on the event loop
    upload_name,        \* file.filename of each request
    temp_files,         \* TEMP_DIR: path -> request whose data it holds
    tool_runs,          \* the subprocess.run results of each request
    response,           \* what the handler returned or raised
    delivered           \* the document each client has received

vars == <<meta, slide_dict, slide_type, line, clean_line, sel_type,
          total_slides, template_sequence, user_slides, template_inventory,
          replacement, slide_idx, install, request_pc, loop_owner,
          upload_name, temp_files, tool_runs, response, delivered>>

classifyVars == <<meta, slide_dict, slide_type>>
stripVars == <<line, clean_line>>
selectVars == <<sel_type, total_slides, template_sequence>>
generateVars == <<user_slides, template_inventory, replacement, slide_idx>>
beautifyVars == <<install, request_pc, loop_owner, upload_name, temp_files,
                  tool_runs, response, delivered>>

-----------------------------------------------------------------------------
(* Bounds of the model *)

MaxShapes == 3
MaxLineLen == 3
MaxDeck == 6
MaxSlides == 2
MaxRequests == 2

-----------------------------------------------------------------------------
(* Python str operations *)

None == << >>

Some(t) == << t >>

Whitespace == {" ", "\n", "\t"}

Digits == {"0", "1", "2", "3", "4", "5", "6", "7", "8", "9"}

UpperLetters ==
    <<"A", "B", "C", "D", "E", "F", "G", "H", "I", "J", "K", "L", "M",
      "N", "O", "P", "Q", "R", "S", "T", "U", "V", "W", "X", "Y", "Z">>

LowerLetters ==
    <<"a", "b", "c", "d", "e", "f", "g", "h", "i", "j", "k", "l", "m",
      "n", "o", "p", "q", "r", "s", "t", "u", "v", "w", "x", "y", "z">>

Letters == {UpperLetters[i] : i \in 1..26} \cup {LowerLetters[i] : i \in 1..26}

SetMin(S) == CHOOSE x \in S : \A y \in S : x <= y

\* str.lower(), one character
LowerChar(c) ==
    IF \E i \in 1..26 : UpperLetters[i] = c
    THEN LowerLetters[CHOOSE i \in 1..26 : UpperLetters[i] = c]
    ELSE c

\* str.lower()
Lower(s) == [i \in 1..Len(s) |-> LowerChar(s[i])]

\* the number of characters of s, from position from on, that are in set
RECURSIVE RunLength(_, _, _)
RunLength(s, from, set) ==
    IF from <= Len(s) /\ s[from] \in set
    THEN 1 + RunLength(s, from + 1, set)
    ELSE 0

\* the number of characters of s, from position to backwards, in set
RECURSIVE TrailingRun(_, _, _)
TrailingRun(s, to, set) ==
    IF to >= 1 /\ s[to] \in set
    THEN 1 + TrailingRun(s, to - 1, set)
    ELSE 0

\* str.strip()
Strip(s) ==
    LET lead == RunLength(s, 1, Whitespace)
    IN  IF lead = Len(s) THEN << >>
        ELSE SubSeq(s, lead + 1, Len(s) - TrailingRun(s, Len(s), Whitespace))

\* sub in s
Contains(s, sub) ==
    \E i \in 1..(Len(s) - Len(sub) + 1) :
        \A j \in 1..Len(sub) : s[i + j - 1] = sub[j]

\* s.startswith(prefix)
StartsWith(s, prefix) ==
    /\ Len(s) >= Len(prefix)
    /\ \A j \in 1..Len(prefix) : s[j] = prefix[j]

\* s.split(sep), sep one character
RECURSIVE Split(_, _)
Split(s, sep) ==
    LET brk == {i \in 1..Len(s) : s[i] = sep}
    IN  IF brk = {} THEN << s >>
        ELSE LET i == SetMin(brk)
             IN  << SubSeq(s, 1, i - 1) >>
                 \o Split(SubSeq(s, i + 1, Len(s)), sep)

DigitChars == <<"0", "1", "2", "3", "4", "5", "6", "7", "8", "9">>

\* int(s), s a str of decimal digits
RECURSIVE ParseInt(_)
ParseInt(s) ==
    IF s = << >> THEN 0
    ELSE 10 * ParseInt(SubSeq(s, 1, Len(s) - 1))
         + (CHOOSE n \in 0..9 : DigitChars[n + 1] = s[Len(s)])

\* str(n), n >= 0
RECURSIVE FormatInt(_)
FormatInt(n) ==
    IF n < 10 THEN << DigitChars[n + 1] >>
    ELSE FormatInt(n \div 10) \o << DigitChars[(n % 10) + 1] >>

\* s.splitlines(): as split, without the empty piece after a final line break
SplitLines(s) ==
    LET parts == Split(s, "\n")
    IN  IF parts[Len(parts)] = << >> THEN SubSeq(parts, 1, Len(parts) - 1)
        ELSE parts

\* sum(numbers)
RECURSIVE Sum(_)
Sum(numbers) ==
    IF numbers = << >> THEN 0 ELSE Head(numbers) + Sum(Tail(numbers))

\* " ".join(parts)
RECURSIVE Join(_)
Join(parts) ==
    IF parts = << >> THEN << >>
    ELSE IF Len(parts) = 1 THEN parts[1]
    ELSE parts[1] \o << " " >> \o Join(Tail(parts))

\* n copies of the character c
Repeat(c, n) == [i \in 1..n |-> c]

-----------------------------------------------------------------------------
(* Basic tools *)

\* a value the document reader supplies for a geometry attribute
IntValue(n) == [kind |-> "int", val |-> n]

NoneValue == [kind |-> "none", val |-> 0]

safe_int(value) == IF value.kind = "int" THEN value.val ELSE 0

\* a shape_type the document reader supplies: an enum member, or None
EnumMember(name) == [kind |-> "enum", name |-> name]

NoShapeType == [kind |-> "none", name |-> ""]

\* shape_type.name, or str(shape_type) when that raises
shape_type_to_str(shape_type) ==
    IF shape_type.kind = "enum" THEN shape_type.name ELSE "None"

-----------------------------------------------------------------------------
(* Slide classification rules *)

AGENDA_KEYWORDS ==
    << <<"a", "g", "e", "n", "d", "a">>,
       <<"c", "o", "n", "t", "e", "n", "t", "s">>,
       <<"o", "u", "t", "l", "i", "n", "e">>,
       <<"U+76EE", "U+5F55">>,
       <<"U+8BAE", "U+7A0B">> >>

ENDING_KEYWORDS ==
    << <<"t", "h", "a", "n", "k", " ", "y", "o", "u">>,
       <<"t", "h", "a", "n", "k", "s">>,
       <<"q", "&", "a">>,
       <<"q", "u", "e", "s", "t", "i", "o", "n", "s">>,
       <<"U+8C22", "U+8C22">>,
       <<"U+7ED3", "U+675F">> >>

SECTION_KEYWORDS ==
    << <<"s", "e", "c", "t", "i", "o", "n">>,
       <<"p", "a", "r", "t">>,
       <<"c", "h", "a", "p", "t", "e", "r">>,
       <<"U+6A21", "U+5757">>,
       <<"U+7BC7">>,
       <<"p", "a", "r", "t", " ">> >>

AGENDA_KEYWORDS_2 ==
    << <<"a", "g", "e", "n", "d", "a">>,
       <<"U+76EE", "U+5F55">>,
       <<"c", "o", "n", "t", "e", "n", "t", "s">> >>

BulletPrefixes ==
    { <<"U+2022">>, <<"-">>, <<"U+00B7">>, <<"U+00B7", " ">>,
      <<"U+25CF">>, <<"U+25CB">>, <<"U+25B6">> }

\* any(k in text for k in keywords)
AnyKeyword(text, keywords) ==
    \E k \in 1..Len(keywords) : Contains(text, keywords[k])

\* re.match(r"^(\d+|[a-zA-Z])[\.\)]\s+", s)
MatchListMarker(s) ==
    LET d == RunLength(s, 1, Digits)
    IN  \/ /\ d >= 1
           /\ Len(s) >= d + 2
           /\ s[d + 1] \in {".", ")"}
           /\ s[d + 2] \in Whitespace
        \/ /\ Len(s) >= 3
           /\ s[1] \in Letters
           /\ s[2] \in {".", ")"}
           /\ s[3] \in Whitespace

is_bullet_line_marker_only(ln) == MatchListMarker(Strip(ln))

is_bullet_line(ln) ==
    LET s == Strip(ln)
    IN  IF s = << >> THEN FALSE
        ELSE IF \E p \in BulletPrefixes : StartsWith(s, p) THEN TRUE
        ELSE MatchListMarker(s)

Labels ==
    {"title", "agenda", "section", "content_bullets", "content_image",
     "content", "ending", "other"}

ZeroDivisionError == "ZeroDivisionError"

Unset == "unset"

\* s.get("has_text_frame") and s.get("text"), then txt = s["text"].strip()
IsTextShape(s) ==
    /\ s.has_text_frame
    /\ s.text # None
    /\ s.text[1] # << >>
    /\ Strip(s.text[1]) # << >>

\* str.upper() of a shape type token: an enum member name is in upper case
\* already, str(None) is not
UpperToken(t) == IF t = "None" THEN "NONE" ELSE t

IsPictureShape(s) == UpperToken(s.shape_type) \in {"PICTURE", "MEDIA"}

NonEmptyLine(ln) == Strip(ln) # << >>

\* lines = [ln for ln in txt.splitlines() if ln.strip()]
LinesOf(s) == SelectSeq(SplitLines(Strip(s.text[1])), NonEmptyLine)

TextLen(s) == Len(Strip(s.text[1]))

LineCount(s) == Len(LinesOf(s))

BulletCount(s) == Len(SelectSeq(LinesOf(s), is_bullet_line))

\* meta.get("slide_height_emu") or 1
SlideHeightNoDefault(m) == m.slide_height_emu

SlideHeight(m) == IF m.slide_height_emu = 0 THEN 1 ELSE m.slide_height_emu

\* y_center_ratio = (top + height / 2) / slide_h;  y_center_ratio < 0.35
InUpperPart(s, slide_h) ==
    LET twice == 2 * s.geometry.top_emu + s.geometry.height_emu
    IN  IF slide_h > 0 THEN 10 * twice < 7 * slide_h
        ELSE 10 * twice > 7 * slide_h

\* ten times the score of a shape: area, times 1.3 in the upper part
Score10(s, slide_h) ==
    LET area == s.geometry.width_emu * s.geometry.height_emu
    IN  IF InUpperPart(s, slide_h) THEN 13 * area ELSE 10 * area

\* the loop over text_shapes that keeps the best title candidate;
\* cand is None or the text, score10 is ten times title_score
RECURSIVE TitleCandidateShort(_, _, _, _)
TitleCandidateShort(text_shapes, slide_h, cand, score10) ==
    IF text_shapes = << >> THEN cand
    ELSE LET s == Head(text_shapes)
             text == Strip(s.text[1])
             sc == Score10(s, slide_h)
         IN  IF sc > score10 /\ 0 < Len(text) /\ Len(text) <= 20
             THEN TitleCandidateShort(Tail(text_shapes), slide_h,
                                      Some(text), sc)
             ELSE TitleCandidateShort(Tail(text_shapes), slide_h,
                                      cand, score10)

RECURSIVE TitleCandidate(_, _, _, _)
TitleCandidate(text_shapes, slide_h, cand, score10) ==
    IF text_shapes = << >> THEN cand
    ELSE LET s == Head(text_shapes)
             text == Strip(s.text[1])
             sc == Score10(s, slide_h)
         IN  IF sc > score10 /\ 0 < Len(text) /\ Len(text) <= 60
             THEN TitleCandidate(Tail(text_shapes), slide_h, Some(text), sc)
             ELSE TitleCandidate(Tail(text_shapes), slide_h, cand, score10)

ShapeText(s) == s.text[1]

RECURSIVE MapText(_)
MapText(shapes) ==
    IF shapes = << >> THEN << >>
    ELSE << ShapeText(Head(shapes)) >> \o MapText(Tail(shapes))

FallbackLabelContent == "content"

\* the label of the last rule
FallbackLabel == "other"

LayoutIsTitleCaseSensitive(sd) ==
    /\ Contains(sd.layout_name, <<"t", "i", "t", "l", "e">>)
    /\ ~Contains(sd.layout_name, <<"a", "g", "e", "n", "d", "a">>)

\* "title" in layout_name and "agenda" not in layout_name
LayoutIsTitle(sd) ==
    LET layout_name == Lower(sd.layout_name)
    IN  /\ Contains(layout_name, <<"t", "i", "t", "l", "e">>)
        /\ ~Contains(layout_name, <<"a", "g", "e", "n", "d", "a">>)

\* "agenda" in layout_name or the localized agenda term in layout_name
LayoutIsAgenda(sd) ==
    LET layout_name == Lower(sd.layout_name)
    IN  \/ Contains(layout_name, <<"a", "g", "e", "n", "d", "a">>)
        \/ Contains(layout_name, <<"U+76EE", "U+5F55">>)

ShortPageTitleRuleFlipped(text_shape_count, total_text_len, has_candidate) ==
    text_shape_count <= 2 /\ total_text_len >= 80 /\ has_candidate

\* len(text_shapes) <= 2 and total_text_len <= 80 and title_candidate
ShortPageTitleRule(text_shape_count, total_text_len, has_candidate) ==
    text_shape_count <= 2 /\ total_text_len <= 80 /\ has_candidate

classify_slide(sd, m) ==
    LET shapes == sd.shapes
        slide_h == SlideHeight(m)
        text_shapes == SelectSeq(shapes, IsTextShape)
        picture_shapes == SelectSeq(shapes, IsPictureShape)
        total_text_len ==
            Sum([i \in 1..Len(text_shapes) |-> TextLen(text_shapes[i])])
        total_lines ==
            Sum([i \in 1..Len(text_shapes) |-> LineCount(text_shapes[i])])
        bullet_lines ==
            Sum([i \in 1..Len(text_shapes) |-> BulletCount(text_shapes[i])])
        \* bullet_ratio >= p/10  iff  10 * bullet_lines >= p * total_lines
        RatioAtLeast(p) ==
            IF total_lines > 0 THEN 10 * bullet_lines >= p * total_lines
            ELSE FALSE
        title_candidate == TitleCandidate(text_shapes, slide_h, None, -10)
        has_candidate == title_candidate # None
        candidate_text ==
            IF has_candidate THEN Lower(title_candidate[1]) ELSE << >>
        all_text == Lower(Join(MapText(text_shapes)))
    IN  IF text_shapes # << >> /\ slide_h = 0 THEN ZeroDivisionError
        ELSE IF LayoutIsTitle(sd)
        THEN "title"
        ELSE IF LayoutIsAgenda(sd)
        THEN "agenda"
        ELSE IF sd.index = 0 /\ has_candidate /\ Len(text_shapes) <= 3
        THEN "title"
        ELSE IF ShortPageTitleRule(Len(text_shapes), total_text_len,
                                   has_candidate)
        THEN "title"
        ELSE IF AnyKeyword(all_text, AGENDA_KEYWORDS)
        THEN "agenda"
        ELSE IF RatioAtLeast(5) /\ AnyKeyword(all_text, AGENDA_KEYWORDS_2)
        THEN "agenda"
        ELSE IF /\ Len(text_shapes) <= 2
                /\ total_text_len <= 60
                /\ AnyKeyword(candidate_text, SECTION_KEYWORDS)
        THEN "section"
        ELSE IF AnyKeyword(all_text, ENDING_KEYWORDS)
        THEN "ending"
        ELSE IF picture_shapes # << >> /\ total_text_len <= 120
        THEN "content_image"
        ELSE IF RatioAtLeast(4)
        THEN "content_bullets"
        ELSE IF total_text_len > 0
        THEN "content"
        ELSE FallbackLabel

-----------------------------------------------------------------------------
(* extract_ppt_structure: the document reader's shapes, one page *)

T_THANKS ==
    <<"T", "h", "a", "n", "k", " ", "Y", "o", "u", " ", "U+2014", " ",
      "Q", "u", "e", "s", "t", "i", "o", "n", "s", "?">>

T_BULLET == <<"U+2022", " ", "a">>

T_LONG == Repeat("x", 61)

T_AGENDA == <<"-", " ", "A", "g", "e", "n", "d", "a">>

T_PART == <<"P", "a", "r", "t", " ", "1">>

T_BLANK == <<" ", "\n", " ">>

RawShape(type, left, top, width, height, frame, text) ==
    [shape_type |-> type, left |-> left, top |-> top, width |-> width,
     height |-> height, has_text_frame |-> frame, text |-> text]

RawShapePool ==
    { RawShape(EnumMember("TEXT_BOX"), IntValue(10), IntValue(40), IntValue(50),
               IntValue(10), TRUE, T_THANKS),
      RawShape(EnumMember("TEXT_BOX"), IntValue(10), IntValue(40), IntValue(-5),
               IntValue(10), TRUE, T_THANKS),
      RawShape(EnumMember("PLACEHOLDER"),
               IntValue(0), IntValue(0), IntValue(10),
               IntValue(10), TRUE, <<" ">> \o T_BULLET \o <<"\n">>),
      RawShape(EnumMember("PLACEHOLDER"),
               IntValue(0), IntValue(30), IntValue(10),
               IntValue(-10), TRUE, T_BULLET),
      RawShape(EnumMember("PICTURE"), IntValue(-5), IntValue(50), IntValue(40),
               IntValue(40), FALSE, << >>),
      RawShape(EnumMember("PLACEHOLDER"),
               IntValue(0), IntValue(20), IntValue(80),
               IntValue(60), TRUE, T_LONG),
      RawShape(EnumMember("TEXT_BOX"), IntValue(0), IntValue(5), IntValue(30),
               IntValue(10), TRUE, T_AGENDA),
      RawShape(EnumMember("TEXT_BOX"), IntValue(0), IntValue(10), IntValue(90),
               IntValue(20), TRUE, T_PART),
      RawShape(NoShapeType, NoneValue, NoneValue, NoneValue,
               NoneValue, TRUE, T_BLANK) }

LayoutNames ==
    { <<"T", "I", "T", "L", "E", " ", "S", "l", "i", "d", "e">>,
      <<"T", "i", "t", "l", "e", " ", "A", "g", "e", "n", "d", "a">>,
      <<"U+76EE", "U+5F55">>,
      <<"B", "l", "a", "n", "k">>,
      << >> }

PageIndices == {0, 1}

SlideHeights == {0, 100}

\* the body of the loop over slide.shapes: one shape_dict
ShapeDict(shape_idx, shape) ==
    [index |-> shape_idx,
     shape_type |-> shape_type_to_str(shape.shape_type),
     geometry |-> [left_emu |-> safe_int(shape.left),
                   top_emu |-> safe_int(shape.top),
                   width_emu |-> safe_int(shape.width),
                   height_emu |-> safe_int(shape.height)],
     has_text_frame |-> shape.has_text_frame,
     text |-> IF shape.has_text_frame /\ Strip(shape.text) # << >>
              THEN Some(Strip(shape.text)) ELSE None]

\* beautify_ppt: the requests, and the paths under TEMP_DIR
Requests == 1..MaxRequests

FileNames == {"deck.pptx", "talk.pptx"}

user_pptx(filename) == <<"user_", filename>>

working_pptx == <<"", "working.pptx">>

inventory_json == <<"", "inventory.json">>

replacement_json == <<"", "replacement.json">>

output_pptx == <<"", "output.pptx">>

TempPaths ==
    {user_pptx(filename) : filename \in FileNames}
        \cup {working_pptx, inventory_json, replacement_json, output_pptx}

IdleClassify ==
    /\ meta = [slide_width_emu |-> 0, slide_height_emu |-> 0]
    /\ slide_dict = [index |-> 0, layout_name |-> << >>, shapes |-> << >>]
    /\ slide_type = Unset

IdleStrip ==
    /\ line = << >>
    /\ clean_line = << >>

IdleSelect ==
    /\ sel_type = "other"
    /\ total_slides = 0
    /\ template_sequence = << >>

IdleGenerate ==
    /\ user_slides = << >>
    /\ template_inventory = << >>
    /\ replacement = << >>
    /\ slide_idx = 0

IdleBeautify ==
    /\ install = [template |-> TRUE, scripts |-> TRUE]
    /\ request_pc = [r \in Requests |-> "idle"]
    /\ loop_owner = None
    /\ upload_name = [r \in Requests |-> None]
    /\ temp_files = [path \in TempPaths |-> None]
    /\ tool_runs = [r \in Requests |-> << >>]
    /\ response = [r \in Requests |-> None]
    /\ delivered = [r \in Requests |-> None]

InitClassify ==
    /\ meta \in [slide_width_emu : {160}, slide_height_emu : SlideHeights]
    /\ slide_dict \in [index : PageIndices, layout_name : LayoutNames,
                        shapes : {<< >>}]
    /\ slide_type = Unset
    /\ IdleStrip /\ IdleSelect /\ IdleGenerate /\ IdleBeautify

\* extract_ppt_structure, one pass of the loop over slide.shapes
ReadShape(shape) ==
    /\ slide_type = Unset
    /\ Len(slide_dict.shapes) < MaxShapes
    /\ slide_dict' = [slide_dict EXCEPT
                        !.shapes = Append(@, ShapeDict(Len(@), shape))]
    /\ UNCHANGED <<meta, slide_type, stripVars, selectVars, generateVars,
                   beautifyVars>>

\* extract_ppt_structure: slide_dict["slide_type"] = classify_slide(...)
ClassifySlide ==
    /\ slide_type = Unset
    /\ slide_type' = classify_slide(slide_dict, meta)
    /\ UNCHANGED <<meta, slide_dict, stripVars, selectVars, generateVars,
                   beautifyVars>>

NextClassify ==
    \/ \E shape \in RawShapePool : ReadShape(shape)
    \/ ClassifySlide

SpecClassify == InitClassify /\ [][NextClassify]_vars

-----------------------------------------------------------------------------
(* generate_replacement_json: removal of the manual bullet symbols *)

StripGlyphs == {"U+2022", "-", "U+25CF", "U+25CB", "U+25B6"}

\* s without its first n characters and the whitespace after them (\s*)
DropMarker(s, n) ==
    SubSeq(s, n + 1 + RunLength(s, n + 1, Whitespace), Len(s))

\* re.sub(r"^[<bullet glyphs>]\s*", "", s)
SubGlyph(s) ==
    IF Len(s) >= 1 /\ s[1] \in StripGlyphs THEN DropMarker(s, 1) ELSE s

\* re.sub(r"^\d+[\.\)]\s*", "", s)
SubNumber(s) ==
    LET d == RunLength(s, 1, Digits)
    IN  IF d >= 1 /\ Len(s) >= d + 1 /\ s[d + 1] \in {".", ")"}
        THEN DropMarker(s, d + 1) ELSE s

\* re.sub(r"^[a-zA-Z][\.\)]\s*", "", s)
SubLetter(s) ==
    IF Len(s) >= 2 /\ s[1] \in Letters /\ s[2] \in {".", ")"}
    THEN DropMarker(s, 2) ELSE s

\* the three substitutions that make clean_line from line
CleanLine(s) == SubLetter(SubNumber(SubGlyph(s)))

StripAlphabet == {"U+2022", "-", "1", "a", ".", ")", " ", "x"}

\* the stripped non-empty lines of a text, up to MaxLineLen characters
InputLines ==
    {s \in UNION {[1..n -> StripAlphabet] : n \in 1..MaxLineLen} :
        Strip(s) = s}

InitStrip ==
    /\ line \in InputLines
    /\ clean_line = << >>
    /\ IdleClassify /\ IdleSelect /\ IdleGenerate /\ IdleBeautify

\* one application of the stripping, to line and then to its own result
StripLine ==
    /\ Len(clean_line) < 2
    /\ clean_line' = Append(clean_line,
                            CleanLine(IF clean_line = << >> THEN line
                                      ELSE clean_line[Len(clean_line)]))
    /\ UNCHANGED <<line, classifyVars, selectVars, generateVars,
                   beautifyVars>>

NextStrip == StripLine

SpecStrip == InitStrip /\ [][NextStrip]_vars

-----------------------------------------------------------------------------
(* Template matching *)

template_map ==
    [title |-> <<0, 1, 4>>,
     agenda |-> <<6, 7>>,
     section |-> <<15, 16, 17>>,
     content_bullets |-> <<18, 19, 20>>,
     content_image |-> <<21, 22>>,
     content |-> <<18, 19, 20>>,
     ending |-> <<31, 32>>,
     other |-> <<18>>]

\* template_map.get(slide_type, [18])
TemplateCandidates(st) ==
    IF st \in DOMAIN template_map THEN template_map[st] ELSE <<18>>

match_template_slide_or(st, slide_index, total) ==
    LET candidates == TemplateCandidates(st)
    IN  IF slide_index = 0 \/ st = "title" THEN candidates[1]
        ELSE candidates[(slide_index % Len(candidates)) + 1]

match_template_slide_shifted(st, slide_index, total) ==
    LET candidates == TemplateCandidates(st)
    IN  IF slide_index = 0 /\ st = "title" THEN candidates[1]
        ELSE candidates[((slide_index + total) % Len(candidates)) + 1]

match_template_slide(st, slide_index, total) ==
    LET candidates == TemplateCandidates(st)
    IN  IF slide_index = 0 /\ st = "title" THEN candidates[1]
        ELSE candidates[(slide_index % Len(candidates)) + 1]

\* the slide types step 2 of beautify_ppt may meet: the labels, and a type
\* that template_map does not list
SlideTypes == Labels \cup {"chart"}

InitSelect ==
    /\ sel_type \in SlideTypes
    /\ total_slides \in 1..MaxDeck
    /\ template_sequence = << >>
    /\ IdleClassify /\ IdleStrip /\ IdleGenerate /\ IdleBeautify

\* beautify_ppt step 2, one pass of the loop over user_slides
MatchSlide ==
    /\ Len(template_sequence) < total_slides
    /\ template_sequence' =
           Append(template_sequence,
                  match_template_slide(sel_type, Len(template_sequence),
                                       total_slides))
    /\ UNCHANGED <<sel_type, total_slides, classifyVars, stripVars,
                   generateVars, beautifyVars>>

NextSelect == MatchSlide

SpecSelect == InitSelect /\ [][NextSelect]_vars

-----------------------------------------------------------------------------
(* generate_replacement_json *)

EmptyDict == << >>

\* f"slide-{slide_idx}"
SlideKey(idx) == <<"s", "l", "i", "d", "e", "-">> \o FormatInt(idx)

\* the inventory tool's "shape-{index}"
ShapeKey(idx) == <<"s", "h", "a", "p", "e", "-">> \o FormatInt(idx)

\* int(k.split("-")[1])
KeyNumber(k) == ParseInt(Split(k, "-")[2])

\* a < b for two str of digits, compared as str
RECURSIVE DigitsLess(_, _)
DigitsLess(a, b) ==
    IF b = << >> THEN FALSE
    ELSE IF a = << >> THEN TRUE
    ELSE IF Head(a) # Head(b)
         THEN ParseInt(<< Head(a) >>) < ParseInt(<< Head(b) >>)
    ELSE DigitsLess(Tail(a), Tail(b))

RECURSIVE SortedShapeKeysAsStr(_)
SortedShapeKeysAsStr(keys) ==
    IF keys = {} THEN << >>
    ELSE LET first == CHOOSE k \in keys : \A j \in keys \ {k} :
                          DigitsLess(Split(k, "-")[2], Split(j, "-")[2])
         IN  << first >> \o SortedShapeKeysAsStr(keys \ {first})

\* sorted(template_shapes.keys(), key=lambda k: int(k.split("-")[1]));
\* the keys of an inventory page have distinct numbers
RECURSIVE SortedShapeKeys(_)
SortedShapeKeys(keys) ==
    IF keys = {} THEN << >>
    ELSE LET first == CHOOSE k \in keys : \A j \in keys :
                          KeyNumber(k) <= KeyNumber(j)
         IN  << first >> \o SortedShapeKeys(keys \ {first})

\* the texts of one page: text.strip() of each shape with a text frame and
\* a text, when it is not empty
TextsOfSlide(user_slide) ==
    LET shapes == SelectSeq(user_slide.shapes, IsTextShape)
    IN  [i \in 1..Len(shapes) |-> Strip(shapes[i].text[1])]

RECURSIVE UserTextsKept(_, _)
UserTextsKept(slides, idx) ==
    IF idx = 0 THEN TextsOfSlide(slides[1])
    ELSE UserTextsKept(slides, idx - 1) \o TextsOfSlide(slides[idx + 1])

\* user_texts of the page at slide_idx; the list is made anew for each page
UserTexts(slides, idx) == TextsOfSlide(slides[idx + 1])

\* lines = [ln.strip() for ln in text.split('\n') if ln.strip()]
StrippedLines(text) ==
    LET kept == SelectSeq(Split(text, "\n"), NonEmptyLine)
    IN  [i \in 1..Len(kept) |-> Strip(kept[i])]

\* the paragraphs of the text assigned at position i to a template shape
Paragraphs(i, text, template_shape) ==
    LET is_title ==
            i = 0 \/ template_shape.placeholder_type
                        \in {"TITLE", "CENTER_TITLE"}
        lines == StrippedLines(text)
        is_bullet_list ==
            \/ Len(lines) > 1
            \/ \E j \in 1..Len(lines) : is_bullet_line(lines[j])
    IN  IF is_bullet_list /\ ~is_title
        THEN [j \in 1..Len(lines) |->
                 [text |-> CleanLine(lines[j]), bullet |-> TRUE, level |-> 0]]
        ELSE IF ~is_title THEN << [text |-> text] >>
        ELSE IF template_shape.placeholder_type = "CENTER_TITLE"
        THEN << [text |-> text, bold |-> TRUE, alignment |-> "CENTER"] >>
        ELSE << [text |-> text, bold |-> TRUE] >>

Min(a, b) == IF a <= b THEN a ELSE b

\* one pass of the loop over user_slides: the value of
\* replacement[slide_key] after it
SlideReplacement(slides, idx, inventory) ==
    LET slide_key == SlideKey(idx)
    IN  IF slide_key \notin DOMAIN inventory THEN EmptyDict
        ELSE LET template_shapes == inventory[slide_key]
                 user_texts == UserTexts(slides, idx)
                 shape_keys == SortedShapeKeys(DOMAIN template_shapes)
                 n == Min(Len(shape_keys), Len(user_texts))
             IN  [k \in {shape_keys[i] : i \in 1..n} |->
                    LET i == CHOOSE i \in 1..n : shape_keys[i] = k
                    IN  [paragraphs |->
                           Paragraphs(i - 1, user_texts[i],
                                      template_shapes[k])]]

G_INTRO == <<"I", "n", "t", "r", "o">>

G_LIST ==
    <<"U+2022", " ", "a", "\n", "-", " ", "b", "\n", "U+00B7", " ", "c">>

G_NOTE == <<"n", "o", "t", "e">>

G_PLAN == <<"P", "l", "a", "n">>

G_STEP == <<"1", ".", " ", "g", "o">>

TextBox(text) ==
    RawShape(EnumMember("TEXT_BOX"), IntValue(0), IntValue(0), IntValue(10),
             IntValue(10), TRUE, text)

Picture ==
    RawShape(EnumMember("PICTURE"), IntValue(0), IntValue(0), IntValue(10),
             IntValue(10), FALSE, << >>)

\* a page of user_slides: the shape_dicts of the reader's shapes
UserSlide(raw_shapes) ==
    [shapes |-> [i \in 1..Len(raw_shapes) |->
                    ShapeDict(i - 1, raw_shapes[i])]]

UserSlidePool ==
    { UserSlide(<< TextBox(G_INTRO), TextBox(G_LIST), TextBox(G_NOTE) >>),
      UserSlide(<< Picture, TextBox(G_PLAN), TextBox(G_STEP) >>),
      UserSlide(<< Picture, TextBox(T_BLANK) >>) }

TemplateShape(kind) == [placeholder_type |-> kind]

\* the shapes of one inventory page; "None" is a shape without a
\* placeholder_type
InventoryPagePool ==
    { EmptyDict,
      ShapeKey(0) :> TemplateShape("TITLE"),
      (ShapeKey(2) :> TemplateShape("BODY"))
          @@ (ShapeKey(10) :> TemplateShape("None")),
      (ShapeKey(0) :> TemplateShape("CENTER_TITLE"))
          @@ (ShapeKey(1) :> TemplateShape("TITLE"))
          @@ (ShapeKey(2) :> TemplateShape("None"))
          @@ (ShapeKey(3) :> TemplateShape("BODY")) }

SlideKeys == {SlideKey(i) : i \in 0..(MaxSlides - 1)}

InitGenerate ==
    /\ user_slides \in UNION {[1..n -> UserSlidePool] : n \in 0..MaxSlides}
    /\ template_inventory \in
           UNION {[keys -> InventoryPagePool] : keys \in SUBSET SlideKeys}
    /\ replacement = EmptyDict
    /\ slide_idx = 0
    /\ IdleClassify /\ IdleStrip /\ IdleSelect /\ IdleBeautify

\* generate_replacement_json, one pass of the loop over user_slides
GenerateSlide ==
    /\ slide_idx < Len(user_slides)
    /\ replacement' =
           (SlideKey(slide_idx) :>
               SlideReplacement(user_slides, slide_idx, template_inventory))
           @@ replacement
    /\ slide_idx' = slide_idx + 1
    /\ UNCHANGED <<user_slides, template_inventory, classifyVars, stripVars,
                   selectVars, beautifyVars>>

NextGenerate == GenerateSlide

SpecGenerate == InitGenerate /\ [][NextGenerate]_vars

-----------------------------------------------------------------------------
(* beautify_ppt (app_v2.py): the request handler *)
(*                                                                         *)
(* The handler is a coroutine on the one event loop of uvicorn.run.  It    *)
(* gives up the loop only at "await file.read()"; from there to its return *)
(* or raise it runs without interruption (subprocess.run blocks the loop). *)
(* The FileResponse it returns opens output.pptx later, when the loop      *)
(* sends the response.                                                     *)

TemplateNotFound ==
    <<"T", "e", "m", "p", "l", "a", "t", "e", " ", "f", "i", "l", "e", " ",
      "n", "o", "t", " ", "f", "o", "u", "n", "d">>

ScriptsNotFound ==
    <<"P", "P", "T", "X", " ", "s", "k", "i", "l", "l", " ", "s", "c", "r",
      "i", "p", "t", "s", " ", "n", "o", "t", " ", "f", "o", "u", "n", "d">>

RearrangeFailed ==
    <<"R", "e", "a", "r", "r", "a", "n", "g", "e", " ", "f", "a", "i", "l",
      "e", "d", ":", " ">>

InventoryFailed ==
    <<"I", "n", "v", "e", "n", "t", "o", "r", "y", " ", "f", "a", "i", "l",
      "e", "d", ":", " ">>

ReplaceFailed ==
    <<"R", "e", "p", "l", "a", "c", "e", " ", "f", "a", "i", "l", "e", "d",
      ":", " ">>

PackageNotFound ==
    <<"P", "a", "c", "k", "a", "g", "e", " ", "n", "o", "t", " ", "f", "o",
      "u", "n", "d">>

ExpectingValue ==
    <<"E", "x", "p", "e", "c", "t", "i", "n", "g", " ", "v", "a", "l", "u",
      "e">>

E_TRACEBACK ==
    <<"T", "r", "a", "c", "e", "b", "a", "c", "k">>

E_USAGE ==
    <<"u", "s", "a", "g", "e">>

StderrTexts == {E_TRACEBACK, E_USAGE}

\* what a run of a tool can do: exit 0 with its output file written (its
\* stderr is not read then), or exit 1 with some stderr, its output file
\* written or not
ToolOutcomes ==
    {[returncode |-> 0, stderr |-> << >>, written |-> TRUE]}
        \cup [returncode : {1}, stderr : StderrTexts, written : BOOLEAN]

\* str(e) of an HTTPException: "<status_code>: <detail>"
StrOfHTTPException(status_code, detail) ==
    FormatInt(status_code) \o <<":", " ">> \o detail

HTTPException(status_code, detail) ==
    [status_code |-> status_code, detail |-> detail, path |-> None]

FileResponse(path) ==
    [status_code |-> 200, detail |-> << >>, path |-> Some(path)]

\* result of subprocess.run(..., capture_output=True, text=True)
CompletedProcess(tool, returncode, stderr) ==
    [tool |-> tool, returncode |-> returncode, stderr |-> stderr]

CleanupFilesKeepWorking(files, filename) ==
    [path \in TempPaths |->
        IF path \in {user_pptx(filename), inventory_json, replacement_json}
        THEN None ELSE files[path]]

\* finally: remove user_pptx, working_pptx, inventory_json, replacement_json
CleanupFiles(files, filename) ==
    [path \in TempPaths |->
        IF path \in {user_pptx(filename), working_pptx, inventory_json,
                     replacement_json}
        THEN None ELSE files[path]]

\* except Exception as e: raise HTTPException(500, str(e)); then finally
Abort(r, files, message) ==
    /\ response' = [response EXCEPT
                      ![r] = Some(HTTPException(500, message))]
    /\ temp_files' = CleanupFiles(files, upload_name[r][1])
    /\ request_pc' = [request_pc EXCEPT ![r] = "done"]
    /\ loop_owner' = None

InitBeautify ==
    /\ install \in [template : BOOLEAN, scripts : BOOLEAN]
    /\ request_pc = [r \in Requests |-> "idle"]
    /\ loop_owner = None
    /\ upload_name = [r \in Requests |-> None]
    /\ temp_files = [path \in TempPaths |-> None]
    /\ tool_runs = [r \in Requests |-> << >>]
    /\ response = [r \in Requests |-> None]
    /\ delivered = [r \in Requests |-> None]
    /\ IdleClassify /\ IdleStrip /\ IdleSelect /\ IdleGenerate

\* the handler from its start to "await file.read()"
Receive(r) ==
    /\ request_pc[r] = "idle"
    /\ loop_owner = None
    /\ \E filename \in FileNames :
           upload_name' = [upload_name EXCEPT ![r] = Some(filename)]
    /\ IF ~install.template
       THEN /\ response' = [response EXCEPT
                              ![r] = Some(HTTPException(500, TemplateNotFound))]
            /\ request_pc' = [request_pc EXCEPT ![r] = "done"]
       ELSE IF ~install.scripts
       THEN /\ response' = [response EXCEPT
                              ![r] = Some(HTTPException(500, ScriptsNotFound))]
            /\ request_pc' = [request_pc EXCEPT ![r] = "done"]
       ELSE /\ request_pc' = [request_pc EXCEPT ![r] = "reading"]
            /\ UNCHANGED response
    /\ UNCHANGED <<install, loop_owner, temp_files, tool_runs, delivered,
                   classifyVars, stripVars, selectVars, generateVars>>

\* the upload is written to user_pptx and parsed (steps 1 and 2)
ParseUpload(r) ==
    /\ request_pc[r] = "reading"
    /\ loop_owner = None
    /\ LET files == [temp_files EXCEPT
                       ![user_pptx(upload_name[r][1])] = Some(r)]
       IN  \E parsed \in BOOLEAN :
               IF parsed
               THEN /\ temp_files' = files
                    /\ request_pc' = [request_pc EXCEPT ![r] = "parsed"]
                    /\ loop_owner' = Some(r)
                    /\ UNCHANGED response
               ELSE Abort(r, files, PackageNotFound)
    /\ UNCHANGED <<install, upload_name, tool_runs, delivered,
                   classifyVars, stripVars, selectVars, generateVars>>

\* step 3: rearrange.py TEMPLATE_PATH working_pptx sequence_str
RunRearrange(r) ==
    /\ request_pc[r] = "parsed"
    /\ loop_owner = Some(r)
    /\ \E run \in ToolOutcomes :
           LET files == IF run.written
                        THEN [temp_files EXCEPT ![working_pptx] = Some(r)]
                        ELSE temp_files
           IN  /\ tool_runs' =
                      [tool_runs EXCEPT
                         ![r] = Append(@, CompletedProcess("rearrange",
                                           run.returncode, run.stderr))]
               /\ IF run.returncode # 0
                  THEN Abort(r, files,
                             StrOfHTTPException(
                                 500, RearrangeFailed \o run.stderr))
                  ELSE /\ temp_files' = files
                       /\ request_pc' = [request_pc EXCEPT ![r] = "rearranged"]
                       /\ UNCHANGED <<loop_owner, response>>
    /\ UNCHANGED <<install, upload_name, delivered,
                   classifyVars, stripVars, selectVars, generateVars>>

\* step 4: inventory.py working_pptx inventory_json
RunInventory(r) ==
    /\ request_pc[r] = "rearranged"
    /\ loop_owner = Some(r)
    /\ \E run \in ToolOutcomes :
           LET files == IF run.written
                        THEN [temp_files EXCEPT ![inventory_json] = Some(r)]
                        ELSE temp_files
           IN  /\ tool_runs' =
                      [tool_runs EXCEPT
                         ![r] = Append(@, CompletedProcess("inventory",
                                           run.returncode, run.stderr))]
               /\ IF run.returncode # 0
                  THEN Abort(r, files,
                             StrOfHTTPException(
                                 500, InventoryFailed \o run.stderr))
                  ELSE /\ temp_files' = files
                       /\ request_pc' = [request_pc EXCEPT ![r] = "inventoried"]
                       /\ UNCHANGED <<loop_owner, response>>
    /\ UNCHANGED <<install, upload_name, delivered,
                   classifyVars, stripVars, selectVars, generateVars>>

\* json.load(inventory_json), step 5 and json.dump to replacement_json
WriteReplacement(r) ==
    /\ request_pc[r] = "inventoried"
    /\ loop_owner = Some(r)
    /\ \E loaded \in BOOLEAN :
           IF loaded
           THEN /\ temp_files' = [temp_files EXCEPT
                                    ![replacement_json] = Some(r)]
                /\ request_pc' = [request_pc EXCEPT ![r] = "generated"]
                /\ UNCHANGED <<loop_owner, response>>
           ELSE Abort(r, temp_files, ExpectingValue)
    /\ UNCHANGED <<install, upload_name, tool_runs, delivered,
                   classifyVars, stripVars, selectVars, generateVars>>

\* step 6: replace.py working_pptx replacement_json output_pptx, and on
\* success the return of FileResponse(path=output_pptx) through finally
RunReplace(r) ==
    /\ request_pc[r] = "generated"
    /\ loop_owner = Some(r)
    /\ \E run \in ToolOutcomes :
           LET files == IF run.written
                        THEN [temp_files EXCEPT ![output_pptx] = Some(r)]
                        ELSE temp_files
           IN  /\ tool_runs' =
                      [tool_runs EXCEPT
                         ![r] = Append(@, CompletedProcess("replace",
                                           run.returncode, run.stderr))]
               /\ IF run.returncode # 0
                  THEN Abort(r, files,
                             StrOfHTTPException(
                                 500, ReplaceFailed \o run.stderr))
                  ELSE /\ temp_files' = CleanupFiles(files, upload_name[r][1])
                       /\ response' = [response EXCEPT
                                         ![r] = Some(FileResponse(output_pptx))]
                       /\ request_pc' = [request_pc EXCEPT ![r] = "responding"]
                       /\ loop_owner' = None
    /\ UNCHANGED <<install, upload_name, delivered,
                   classifyVars, stripVars, selectVars, generateVars>>

\* the event loop sends the FileResponse: the file at its path, as it is now
SendFile(r) ==
    /\ request_pc[r] = "responding"
    /\ loop_owner = None
    /\ delivered' = [delivered EXCEPT ![r] = temp_files[response[r][1].path[1]]]
    /\ request_pc' = [request_pc EXCEPT ![r] = "done"]
    /\ UNCHANGED <<install, loop_owner, upload_name, temp_files, tool_runs,
                   response, classifyVars, stripVars, selectVars, generateVars>>

NextBeautify ==
    \E r \in Requests :
        \/ Receive(r)
        \/ ParseUpload(r)
        \/ RunRearrange(r)
        \/ RunInventory(r)
        \/ WriteReplacement(r)
        \/ RunReplace(r)
        \/ SendFile(r)

SpecBeautify == InitBeautify /\ [][NextBeautify]_vars

-----------------------------------------------------------------------------
(* Properties of classify_slide, under SpecClassify *)

Classified == slide_type # Unset

TextShapesOfPage == SelectSeq(slide_dict.shapes, IsTextShape)

AllTextOfPage == Lower(Join(MapText(TextShapesOfPage)))

\* the layout name contains neither "title" nor "agenda", in any case
LayoutPlain ==
    /\ ~Contains(Lower(slide_dict.layout_name), <<"t", "i", "t", "l", "e">>)
    /\ ~Contains(Lower(slide_dict.layout_name),
                 <<"a", "g", "e", "n", "d", "a">>)

\* ... nor the localized agenda term
LayoutNeutral ==
    /\ LayoutPlain
    /\ ~Contains(Lower(slide_dict.layout_name), <<"U+76EE", "U+5F55">>)

Area(s) == s.geometry.width_emu * s.geometry.height_emu

\* the shape can become the title candidate: 0 < len(text) <= 60 and its
\* score (area, or 1.3 * area) exceeds the initial title_score of -1.0
CanBeCandidate(s) ==
    /\ Len(Strip(s.text[1])) <= 60
    /\ Area(s) >= 0

\* C1: classification totality: every classified page has exactly one label
\* of the closed set of 8 labels; classify_slide returns no other value and
\* does not raise, also for a deck height of 0 and a page without shapes.
C1_Totality == Classified => slide_type \in Labels

C1_Witness ==
    /\ Classified
    /\ slide_type \in Labels
    /\ meta.slide_height_emu = 0
    /\ TextShapesOfPage # << >>

\* C2: rule precedence: a page whose layout name contains "title" in any
\* case and does not contain "agenda" is classified title, whatever its
\* shapes and texts are.
C2_TitleLayoutWins ==
    (/\ Classified
     /\ Contains(Lower(slide_dict.layout_name), <<"t", "i", "t", "l", "e">>)
     /\ ~Contains(Lower(slide_dict.layout_name),
                  <<"a", "g", "e", "n", "d", "a">>))
    => slide_type = "title"

C2_Witness ==
    /\ Classified
    /\ Contains(Lower(slide_dict.layout_name), <<"t", "i", "t", "l", "e">>)
    /\ ~Contains(Lower(slide_dict.layout_name),
                 <<"a", "g", "e", "n", "d", "a">>)
    /\ slide_dict.index = 1
    /\ Len(TextShapesOfPage) = 3
    /\ AnyKeyword(AllTextOfPage, ENDING_KEYWORDS)
    /\ AnyKeyword(AllTextOfPage, AGENDA_KEYWORDS)
    /\ \E i \in 1..3 : BulletCount(TextShapesOfPage[i]) > 0
    /\ slide_type = "title"

\* the page's only shape is one text shape reading "Thank You - Questions?"
OnlyThanksPage ==
    /\ Len(slide_dict.shapes) = 1
    /\ IsTextShape(slide_dict.shapes[1])
    /\ slide_dict.shapes[1].text = Some(T_THANKS)

\* C3 as stated: the page whose only shape is the text shape "Thank You -
\* Questions?", with a layout name containing neither "title" nor "agenda",
\* is classified ending.
C3_ThanksIsEnding ==
    (Classified /\ OnlyThanksPage /\ LayoutPlain) => slide_type = "ending"

\* C3 amended: that page is classified title when the shape's area is not
\* negative (the shape is then the title candidate and the short-page title
\* rule precedes the ending rule), and ending when the area is negative;
\* the layout name contains no agenda term either.
C3_ThanksIsTitle ==
    (Classified /\ OnlyThanksPage /\ LayoutNeutral)
    => slide_type = (IF Area(slide_dict.shapes[1]) >= 0 THEN "title"
                     ELSE "ending")

C3_Witness ==
    /\ Classified /\ OnlyThanksPage /\ LayoutNeutral
    /\ slide_dict.index = 1
    /\ Area(slide_dict.shapes[1]) >= 0
    /\ slide_type = "title"

\* C4 as stated: a page with zero shapes is classified other for every page
\* index and every layout name.
C4_NoShapesIsOther ==
    (Classified /\ slide_dict.shapes = << >>) => slide_type = "other"

\* C4 amended: a page with zero shapes is classified other for every page
\* index when its layout name contains none of "title", "agenda" and the
\* localized agenda term; the layout rules decide otherwise.
C4_NoShapesNeutralLayoutIsOther ==
    (Classified /\ slide_dict.shapes = << >> /\ LayoutNeutral)
    => slide_type = "other"

C4_Witness ==
    /\ Classified /\ slide_dict.shapes = << >> /\ LayoutNeutral
    /\ slide_dict.index = 0
    /\ slide_type = "other"

EveryLineBulleted(s) ==
    \A i \in 1..Len(LinesOf(s)) :
        StartsWith(Strip(LinesOf(s)[i]), <<"U+2022", " ">>)

\* exactly three text shapes, every line starting with the bullet glyph and
\* a space, no picture or media shape, no agenda or ending keyword
BulletPage ==
    /\ Len(TextShapesOfPage) = 3
    /\ \A i \in 1..3 : EveryLineBulleted(TextShapesOfPage[i])
    /\ SelectSeq(slide_dict.shapes, IsPictureShape) = << >>
    /\ ~AnyKeyword(AllTextOfPage, AGENDA_KEYWORDS)
    /\ ~AnyKeyword(AllTextOfPage, ENDING_KEYWORDS)

\* C5 as stated: the bullet page with a layout name containing neither
\* "title" nor "agenda" is classified content_bullets at every page index.
C5_BulletPageIsBullets ==
    (Classified /\ BulletPage /\ LayoutPlain)
    => slide_type = "content_bullets"

\* C5 amended: the bullet page whose layout name contains no title or
\* agenda term is classified content_bullets when it is not the first page
\* or none of its text shapes can be the title candidate; the first page
\* with a title candidate is classified title.
C5_BulletPageNotFirst ==
    (Classified /\ BulletPage /\ LayoutNeutral)
    => slide_type =
         (IF /\ slide_dict.index = 0
             /\ \E i \in 1..3 : CanBeCandidate(TextShapesOfPage[i])
          THEN "title" ELSE "content_bullets")

C5_Witness ==
    /\ Classified /\ BulletPage /\ LayoutNeutral
    /\ slide_dict.index = 1
    /\ \E i \in 1..3 : CanBeCandidate(TextShapesOfPage[i])
    /\ slide_type = "content_bullets"

-----------------------------------------------------------------------------
(* Properties of the stripping, under SpecStrip *)

\* C6: bullet stripping idempotence: stripping the leading markers of a line
\* that has been stripped already returns that line unchanged.
C6_StripIdempotent ==
    Len(clean_line) = 2 => clean_line[2] = clean_line[1]

-----------------------------------------------------------------------------
(* Properties of match_template_slide, under SpecSelect *)

Range(seq) == {seq[i] : i \in 1..Len(seq)}

\* C7: round-robin coverage: for each of the 8 labels, with N the size of
\* its pool, the results for the page indices 0..2N-1 contain every
\* candidate of the pool exactly twice.
C7_RoundRobinCoverage ==
    LET pool == TemplateCandidates(sel_type)
        N == Len(pool)
    IN  (sel_type \in Labels /\ Len(template_sequence) >= 2 * N)
        => \A k \in 1..N :
              Cardinality({i \in 1..(2 * N) :
                             template_sequence[i] = pool[k]}) = 2

C7_Witness ==
    /\ sel_type = "title"
    /\ Len(template_sequence) = 6
    /\ \A c \in {0, 1, 4} :
          Cardinality({i \in 1..6 : template_sequence[i] = c}) = 2

\* C8: selection policy: the result for page index i is the first title
\* candidate when i = 0 and the label is title, otherwise candidates[i mod
\* len(candidates)] of the label's pool ([18] for an unlisted label); it is
\* a member of that pool, is the same for every total number of slides, and
\* agenda at the indices 2 and 4 gives 6.
C8_SelectionPolicy ==
    \A i \in 1..Len(template_sequence) :
        LET pool == IF sel_type \in Labels THEN template_map[sel_type]
                    ELSE <<18>>
            expected == IF i - 1 = 0 /\ sel_type = "title"
                        THEN template_map["title"][1]
                        ELSE pool[((i - 1) % Len(pool)) + 1]
        IN  /\ template_sequence[i] = expected
            /\ template_sequence[i] \in Range(pool)
            /\ \A n \in 1..(MaxDeck + 1) :
                  match_template_slide(sel_type, i - 1, n)
                      = template_sequence[i]
            /\ (sel_type = "agenda" /\ i - 1 \in {2, 4})
                  => template_sequence[i] = 6

C8_Witness ==
    /\ sel_type = "agenda"
    /\ Len(template_sequence) >= 5
    /\ template_sequence[3] = 6
    /\ template_sequence[5] = 6

-----------------------------------------------------------------------------
(* Properties of generate_replacement_json, under SpecGenerate *)

\* the pages the loop has been through
DonePages == 0..(slide_idx - 1)

\* the number of shape keys of the inventory for page P
ShapeKeyCount(P) ==
    IF SlideKey(P) \in DOMAIN template_inventory
    THEN Cardinality(DOMAIN template_inventory[SlideKey(P)]) ELSE 0

\* the number of paragraphs assigned to page P
ParagraphCount(P) ==
    LET entries == replacement[SlideKey(P)]
        ks == SortedShapeKeys(DOMAIN entries)
    IN  Sum([i \in 1..Len(ks) |-> Len(entries[ks[i]].paragraphs)])

\* t is a text of user page P, or a cleaned line of one
FromPage(t, P) ==
    LET texts == TextsOfSlide(user_slides[P + 1])
    IN  \E i \in 1..Len(texts) :
            \/ t = texts[i]
            \/ \E j \in 1..Len(StrippedLines(texts[i])) :
                   t = CleanLine(StrippedLines(texts[i])[j])

\* every paragraph text under slide-P comes from user page P
OwnTextsOnly(P) ==
    LET entries == replacement[SlideKey(P)]
    IN  \A k \in DOMAIN entries :
            \A j \in 1..Len(entries[k].paragraphs) :
                FromPage(entries[k].paragraphs[j].text, P)

\* C9 as stated: no page is assigned more paragraphs than the inventory has
\* shape keys for it, and every text under slide-P comes from user page P.
C9_ParagraphBound ==
    \A P \in DonePages :
        /\ ParagraphCount(P) <= ShapeKeyCount(P)
        /\ OwnTextsOnly(P)

\* C9 amended: no page is assigned more texts, that is shapes with
\* paragraphs, than the inventory has shape keys for it (a text of several
\* lines on a shape that is no title gives one paragraph per line, so the
\* paragraphs can outnumber the shape keys), and every text under slide-P
\* comes from user page P.
C9_ShapeBound ==
    \A P \in DonePages :
        /\ Cardinality(DOMAIN replacement[SlideKey(P)]) <= ShapeKeyCount(P)
        /\ OwnTextsOnly(P)

C9_Witness ==
    /\ slide_idx = 2
    /\ {SlideKey(0), SlideKey(1)} \subseteq DOMAIN template_inventory
    /\ TextsOfSlide(user_slides[1]) # TextsOfSlide(user_slides[2])
    /\ \A P \in {0, 1} :
          /\ ShapeKeyCount(P) = 2
          /\ Cardinality(DOMAIN replacement[SlideKey(P)]) = 2
    /\ ParagraphCount(0) > 2

\* the i-th shape key of page P in ascending order of the numbers, i from 1
NthShapeKey(P, i) ==
    LET keys == DOMAIN template_inventory[SlideKey(P)]
    IN  CHOOSE k \in keys :
            Cardinality({j \in keys : KeyNumber(j) < KeyNumber(k)}) = i - 1

\* C10: assignment order: for a page of the inventory with texts, the i-th
\* shape key in ascending order of the numeric suffix receives texts[i];
\* exactly min(len(texts), number of shape keys) shape keys are assigned,
\* the other template shapes get no entry and the other texts are dropped.
C10_AssignmentOrder ==
    \A P \in DonePages :
        LET texts == TextsOfSlide(user_slides[P + 1])
            n == Min(Len(texts), ShapeKeyCount(P))
        IN  (SlideKey(P) \in DOMAIN template_inventory /\ texts # << >>)
            => /\ DOMAIN replacement[SlideKey(P)]
                     = {NthShapeKey(P, i) : i \in 1..n}
               /\ Cardinality(DOMAIN replacement[SlideKey(P)]) = n
               /\ \A i \in 1..n :
                     replacement[SlideKey(P)][NthShapeKey(P, i)].paragraphs
                       = Paragraphs(i - 1, texts[i],
                            template_inventory[SlideKey(P)][NthShapeKey(P, i)])

C10_Witness ==
    /\ slide_idx = 2
    /\ {SlideKey(0), SlideKey(1)} \subseteq DOMAIN template_inventory
    /\ Len(TextsOfSlide(user_slides[1])) = 3
    /\ DOMAIN template_inventory[SlideKey(0)] = {ShapeKey(2), ShapeKey(10)}
    /\ DOMAIN replacement[SlideKey(0)] = {ShapeKey(2), ShapeKey(10)}
    /\ replacement[SlideKey(0)][ShapeKey(2)].paragraphs
          = << [text |-> G_INTRO, bold |-> TRUE] >>
    /\ Len(replacement[SlideKey(0)][ShapeKey(10)].paragraphs) = 3
    /\ Len(TextsOfSlide(user_slides[2])) = 2
    /\ ShapeKeyCount(1) = 4
    /\ DOMAIN replacement[SlideKey(1)] = {ShapeKey(0), ShapeKey(1)}

\* the loop skips page P: no text on it, or no page of the inventory for it
Skipped(P) ==
    \/ TextsOfSlide(user_slides[P + 1]) = << >>
    \/ SlideKey(P) \notin DOMAIN template_inventory

\* the instructions of page Q do not depend on page P: they are those of
\* every deck and inventory that differ at page P only
SameWithout(Q, P) ==
    \A other \in UserSlidePool :
        \A shapes \in InventoryPagePool :
            replacement[SlideKey(Q)] =
                SlideReplacement([user_slides EXCEPT ![P + 1] = other], Q,
                                 (SlideKey(P) :> shapes) @@ template_inventory)

\* C11: skipped pages: a page without text, or whose key is absent from the
\* inventory, gives no shape of that page any paragraphs, and the
\* instructions of the other pages are what they are without that page.
C11_SkippedPages ==
    \A P \in DonePages :
        Skipped(P)
        => /\ DOMAIN replacement[SlideKey(P)] = {}
           /\ \A Q \in DonePages \ {P} : SameWithout(Q, P)

C11_Witness ==
    /\ slide_idx = 2
    /\ SlideKey(0) \notin DOMAIN template_inventory
    /\ TextsOfSlide(user_slides[1]) # << >>
    /\ DOMAIN replacement[SlideKey(0)] = {}
    /\ DOMAIN replacement[SlideKey(1)] # {}

\* position i (from 0) of page P is assigned a text that is no title and is
\* a bullet list
BulletAssignment(P, i) ==
    LET texts == TextsOfSlide(user_slides[P + 1])
        key == NthShapeKey(P, i + 1)
        lines == StrippedLines(texts[i + 1])
    IN  /\ i # 0
        /\ template_inventory[SlideKey(P)][key].placeholder_type
              \notin {"TITLE", "CENTER_TITLE"}
        /\ \/ Len(lines) > 1
           \/ \E j \in 1..Len(lines) : is_bullet_line(lines[j])

\* the positions of page P that are assigned a text
AssignedPositions(P) ==
    IF SlideKey(P) \in DOMAIN template_inventory
    THEN 0..(Min(Len(TextsOfSlide(user_slides[P + 1])), ShapeKeyCount(P)) - 1)
    ELSE {}

\* C14: bullet paragraphs: an assigned text that is no title and is a
\* bullet list gives exactly one paragraph per non-empty trimmed line, each
\* with bullet = true and level = 0, and no paragraph text still begins
\* with a marker that is_bullet_line recognises.
C14_BulletParagraphs ==
    \A P \in DonePages :
        \A i \in AssignedPositions(P) :
            BulletAssignment(P, i)
            => LET paragraphs ==
                       replacement[SlideKey(P)][NthShapeKey(P, i + 1)]
                           .paragraphs
                   lines ==
                       StrippedLines(TextsOfSlide(user_slides[P + 1])[i + 1])
               IN  /\ Len(paragraphs) = Len(lines)
                   /\ \A j \in 1..Len(paragraphs) :
                         /\ paragraphs[j].bullet = TRUE
                         /\ paragraphs[j].level = 0
                         /\ ~is_bullet_line(paragraphs[j].text)

-----------------------------------------------------------------------------
(* Properties of extract_ppt_structure, under SpecClassify *)

\* C13: geometry invariant: every geometry value of every shape of the
\* page is a non-negative integer, whatever the document reader supplies.
C13_GeometryNonNegative ==
    \A i \in 1..Len(slide_dict.shapes) :
        LET geom == slide_dict.shapes[i].geometry
        IN  /\ geom.left_emu >= 0
            /\ geom.top_emu >= 0
            /\ geom.width_emu >= 0
            /\ geom.height_emu >= 0

PageTextLen ==
    Sum([i \in 1..Len(TextShapesOfPage) |-> TextLen(TextShapesOfPage[i])])

PageLines ==
    Sum([i \in 1..Len(TextShapesOfPage) |-> LineCount(TextShapesOfPage[i])])

PageBulletLines ==
    Sum([i \in 1..Len(TextShapesOfPage) |-> BulletCount(TextShapesOfPage[i])])

PageCandidate == TitleCandidate(TextShapesOfPage, SlideHeight(meta), None, -10)

\* the condition of the section rule
SectionRuleHolds ==
    /\ Len(TextShapesOfPage) <= 2
    /\ PageTextLen <= 60
    /\ PageCandidate # None
    /\ AnyKeyword(Lower(PageCandidate[1]), SECTION_KEYWORDS)

\* the condition of the bullet-ratio agenda rule
RatioAgendaRuleHolds ==
    /\ AnyKeyword(AllTextOfPage, AGENDA_KEYWORDS_2)
    /\ PageLines > 0
    /\ 10 * PageBulletLines >= 5 * PageLines

\* C15: label reachability: no page is classified section, because whenever
\* the condition of the section rule holds the earlier short-page title
\* rule holds too; and whenever the condition of the bullet-ratio agenda
\* rule holds the earlier agenda-keyword rule holds too.
C15_SectionNeverReturned ==
    Classified
    => /\ slide_type # "section"
       /\ SectionRuleHolds
             => ShortPageTitleRule(Len(TextShapesOfPage), PageTextLen,
                                   PageCandidate # None)
       /\ RatioAgendaRuleHolds => AnyKeyword(AllTextOfPage, AGENDA_KEYWORDS)

C15_Witness ==
    /\ Classified
    /\ LayoutNeutral
    /\ slide_dict.index = 1
    /\ SectionRuleHolds
    /\ slide_type = "title"

-----------------------------------------------------------------------------
(* Properties of beautify_ppt, under SpecBeautify *)

PIPELINE == <<"rearrange", "inventory", "replace">>

\* the temporary artifacts of request r that hold its data
ArtifactsOf(r) ==
    {path \in {user_pptx(upload_name[r][1]), working_pptx, inventory_json,
               replacement_json} : temp_files[path] = Some(r)}

ToolFailed(r) ==
    /\ tool_runs[r] # << >>
    /\ tool_runs[r][Len(tool_runs[r])].returncode # 0

C16_RequestIsolation ==
    \A r \in Requests :
        /\ request_pc[r] = "responding" => temp_files[output_pptx] = Some(r)
        /\ delivered[r] # None => delivered[r] = Some(r)

====
